---- MODULE Spec2Model ----
(***************************************************************************)
(* Model of the user-space FIFO scheduler of src/src/main.rs: the          *)
(* Scheduler (task_queue + the BpfScheduler connector), its main loop      *)
(* run(), consume_tasks(), dispatch_tasks(), and the restart loop of       *)
(* main().  The BPF backend (BpfScheduler) is the environment: its         *)
(* results are chosen nondeterministically.                                *)
(***************************************************************************)
EXTENDS Integers, Sequences, FiniteSets

\* ------------------------------------------------------------------ bounds
MaxPid == 3          \* task identifiers are 1..MaxPid
MaxCpu == 1          \* CPU identifiers are 0..MaxCpu
MaxArrivals == 3     \* tasks the backend hands out per scheduler instance
MaxFairArrivals == 2 \* the same, in the executions of FairSpec
SliceProbe == 30     \* width of the batch-size windows of SliceSpec

\* --------------------------------------------------------------- constants
\* main.rs:100
SLICE_NS == 5000000

\* Dispatch flag "dispatch on the first CPU available" (bpf.rs, bit 0).
RL_CPU_ANY == 1

Pids == 1..MaxPid
Cpus == 0..MaxCpu

\* Values select_cpu() can return: an idle CPU, or a negative value.
SelectCpuResults == {-1} \cup Cpus

\* pub struct QueuedTask { pid, cpu, .. } (sum_exec_runtime and weight are
\* never read by this scheduler).
QueuedTask == [pid : Pids, cpu : Cpus]

VARIABLES
    pc,            \* position of main()/run()
    task_queue,    \* Scheduler.task_queue : VecDeque<QueuedTask>
    nr_waiting,    \* local of dispatch_tasks()
    exit_flag,     \* backend: exit requested (what exited() returns)
    pending,       \* backend: pids handed out by dequeue_task(), not yet dispatched
    report,        \* result of shutdown_and_report(), as seen by main()
                   \* (requested: the restart request the backend recorded)
    arrived,       \* log: pids returned by dequeue_task(), this instance
    dispatched,    \* log: pid, slice_ns of the dispatch_task() calls, this instance
    selected,      \* the last select_cpu() call of the pass in progress
    decision,      \* the last DispatchedTask submitted by the pass in progress
    failed_at,     \* index in dispatched of the dispatch_task() error, 0 = none
    drain_result,  \* how the last dequeue_task() call ended
    calls,         \* counters of the backend calls (late: notify_complete()
                   \* calls made with the exit flag set)
    notified,      \* log of the last notify_complete(): argument and queue length
    trace,         \* log: the backend calls of the cycle in progress, in order
    drain          \* log of the drain in progress: the queue before it and the
                   \* tasks dequeue_task() returned to it

vars == <<pc, task_queue, nr_waiting, exit_flag, pending, report,
          arrived, dispatched, selected, decision, failed_at, drain_result, calls,
          notified, trace, drain>>

NoReport ==
    [ok |-> FALSE, should_restart |-> FALSE, valid |-> FALSE,
     requested |-> FALSE]
NoCalls ==
    [exited |-> 0, drains |-> 0, notify |-> 0, report |-> 0, exit_seen |-> FALSE,
     late |-> 0]
NoSelect == [pid |-> 0, prev_cpu |-> 0, flags |-> 0, ret |-> 0]
NoDecision == [pid |-> 0, cpu |-> 0, flags |-> 0, slice_ns |-> 0]
NoDrain == [before |-> <<>>, got |-> <<>>]
NoNotify == [called |-> FALSE, arg |-> 0, left |-> 0]

\* The counters exited, drains and notify count the calls of the cycle in
\* progress: a cycle that has had its poll, its drain and its notify is
\* complete and is taken off all three.
CycleCount(c) ==
    IF c.exited >= 1 /\ c.drains >= 1 /\ c.notify >= 1
    THEN [c EXCEPT !.exited = @ - 1, !.drains = @ - 1, !.notify = @ - 1]
    ELSE c

\* --------------------------------------------------------- pure functions
\* a | f for a single-bit flag f
BitOr(a, f) == IF (a \div f) % 2 = 1 THEN a ELSE a + f

HasFlag(a, f) == (a \div f) % 2 = 1

\* DispatchedTask::new(&task): pre-populated from the QueuedTask.
DispatchedTaskNew(task) ==
    [pid |-> task.pid, cpu |-> task.cpu, flags |-> 0, slice_ns |-> 0]

\* Variant of AssignCpu: the result of select_cpu() is stored without the
\* cpu >= 0 test.
AssignCpuUnchecked(dt, cpu) == [dt EXCEPT !.cpu = cpu]

\* Variant of AssignCpu: an idle CPU found by select_cpu() is not used, the
\* task stays on the CPU the decision was pre-populated with.
AssignCpuSticky(dt, cpu) ==
    IF cpu >= 0 THEN dt
                ELSE [dt EXCEPT !.flags = BitOr(dt.flags, RL_CPU_ANY)]

\* main.rs:168-174
AssignCpu(dt, cpu) ==
    IF cpu >= 0 THEN [dt EXCEPT !.cpu = cpu]
                ELSE [dt EXCEPT !.flags = BitOr(dt.flags, RL_CPU_ANY)]

\* main.rs:180 (u64 division)
TimeSlice(nr) == SLICE_NS \div (nr + 1)

\* Variant of Decide: the slice is recomputed from the length the queue has
\* when the task is popped, not from the batch size.
DecideRecomputed(task, cpu, nr) ==
    [AssignCpu(DispatchedTaskNew(task), cpu)
        EXCEPT !.slice_ns = TimeSlice(Len(task_queue))]

\* The decision built for `task` when select_cpu() returned `cpu`.
Decide(task, cpu, nr) ==
    [AssignCpu(DispatchedTaskNew(task), cpu) EXCEPT !.slice_ns = TimeSlice(nr)]

\* What the log keeps of a decision passed to dispatch_task()
Submitted(dt) == [pid |-> dt.pid, slice_ns |-> dt.slice_ns]

\* Variant of PopFront: pop_back(), the queue used as a stack.
PopBack(q) == [task |-> q[Len(q)], rest |-> SubSeq(q, 1, Len(q) - 1)]

\* Variant of PopFront: the front element is read but left in the queue.
PopPeek(q) == [task |-> Head(q), rest |-> q]

\* VecDeque::pop_front: the element removed and the rest
PopFront(q) == [task |-> Head(q), rest |-> Tail(q)]

\* ------------------------------------------------------------------- Init
Init ==
    /\ pc = "init"
    /\ task_queue = <<>>
    /\ nr_waiting = 0
    /\ exit_flag = FALSE
    /\ pending = {}
    /\ report = NoReport
    /\ arrived = <<>>
    /\ dispatched = <<>>
    /\ selected = NoSelect
    /\ decision = NoDecision
    /\ failed_at = 0
    /\ drain_result = "none"
    /\ calls = NoCalls
    /\ notified = NoNotify
    /\ trace = <<>>
    /\ drain = NoDrain

\* ---------------------------------------------------------------- actions
\* main(): Scheduler::init()?  A new backend and an empty queue, or the error
\* is returned from main.
SchedulerInit ==
    /\ pc = "init"
    /\ \E ok \in BOOLEAN :
         pc' = IF ok THEN "poll" ELSE "failed"
    /\ task_queue' = <<>>
    /\ nr_waiting' = 0
    /\ exit_flag' = FALSE
    /\ pending' = {}
    /\ report' = NoReport
    /\ arrived' = <<>>
    /\ dispatched' = <<>>
    /\ selected' = NoSelect
    /\ decision' = NoDecision
    /\ failed_at' = 0
    /\ drain_result' = "none"
    /\ calls' = NoCalls
    /\ notified' = NoNotify
    /\ trace' = <<>>
    /\ drain' = NoDrain

Running == {"poll", "consume", "dispatch_begin", "dispatch", "notify"}

\* The backend raises its exit flag (CTRL+c, or an error of the BPF side).
BackendExit ==
    /\ pc \in Running
    /\ ~exit_flag
    /\ exit_flag' = TRUE
    /\ UNCHANGED <<pc, task_queue, nr_waiting, pending, report, arrived,
                   dispatched, selected, decision, failed_at, drain_result,
                   calls, notified, trace, drain>>

\* Variant of PollExited: the result of exited() is read but the loop body
\* runs all the same.
PollExitedIgnored ==
    /\ pc = "poll"
    /\ drain' = [before |-> task_queue, got |-> <<>>]
    /\ trace' = <<"exited">>
    /\ calls' = CycleCount([calls EXCEPT !.exited = @ + 1, !.exit_seen = exit_flag])
    /\ pc' = "consume"
    /\ UNCHANGED <<task_queue, nr_waiting, exit_flag, pending, report, arrived,
                   dispatched, selected, decision, failed_at, drain_result,
                   notified>>

\* run(): while !self.bpf.exited()
PollExited ==
    /\ pc = "poll"
    /\ drain' = [before |-> task_queue, got |-> <<>>]
    /\ trace' = <<"exited">>
    /\ calls' = CycleCount([calls EXCEPT !.exited = @ + 1, !.exit_seen = exit_flag])
    /\ pc' = IF exit_flag THEN "exited" ELSE "consume"
    /\ UNCHANGED <<task_queue, nr_waiting, exit_flag, pending, report, arrived,
                   dispatched, selected, decision, failed_at, drain_result,
                   notified>>

\* Variant of DequeueSome: the task is queued with push_front().
DequeueSomeFront ==
    /\ pc = "consume"
    /\ trace' = Append(trace, "dequeue_some")
    /\ Len(arrived) < MaxArrivals
    /\ \E task \in QueuedTask :
         /\ task.pid \notin pending
         /\ task_queue' = <<task>> \o task_queue
         /\ arrived' = Append(arrived, task.pid)
         /\ drain' = [drain EXCEPT !.got = Append(@, task)]
         /\ pending' = pending \cup {task.pid}
    /\ drain_result' = "some"
    /\ UNCHANGED <<pc, nr_waiting, exit_flag, report, dispatched, selected,
                   decision, failed_at, calls, notified>>

\* consume_tasks(): dequeue_task() returned Ok(Some(task))
DequeueSome ==
    /\ pc = "consume"
    /\ trace' = Append(trace, "dequeue_some")
    /\ Len(arrived) < MaxArrivals
    /\ \E task \in QueuedTask :
         /\ task.pid \notin pending
         /\ task_queue' = Append(task_queue, task)
         /\ arrived' = Append(arrived, task.pid)
         /\ drain' = [drain EXCEPT !.got = Append(@, task)]
         /\ pending' = pending \cup {task.pid}
    /\ drain_result' = "some"
    /\ UNCHANGED <<pc, nr_waiting, exit_flag, report, dispatched, selected,
                   decision, failed_at, calls, notified>>

\* consume_tasks(): dequeue_task() returned Ok(None): the loop ends
DequeueNone ==
    /\ pc = "consume"
    /\ trace' = Append(trace, "dequeue_none")
    /\ drain_result' = "empty"
    /\ calls' = CycleCount([calls EXCEPT !.drains = @ + 1])
    /\ pc' = "dispatch_begin"
    /\ UNCHANGED <<task_queue, nr_waiting, exit_flag, pending, report, arrived,
                   dispatched, selected, decision, failed_at, notified, drain>>

\* Variant of DequeueErr: the error is propagated (dequeue_task()?) and ends
\* run() and main().
DequeueErrPropagated ==
    /\ pc = "consume"
    /\ trace' = Append(trace, "dequeue_err")
    /\ drain_result' = "err"
    /\ calls' = CycleCount([calls EXCEPT !.drains = @ + 1])
    /\ pc' = "failed"
    /\ UNCHANGED <<task_queue, nr_waiting, exit_flag, pending, report, arrived,
                   dispatched, selected, decision, failed_at, notified, drain>>

\* consume_tasks(): dequeue_task() returned Err(_): the pattern does not
\* match, the loop ends
DequeueErr ==
    /\ pc = "consume"
    /\ trace' = Append(trace, "dequeue_err")
    /\ drain_result' = "err"
    /\ calls' = CycleCount([calls EXCEPT !.drains = @ + 1])
    /\ pc' = "dispatch_begin"
    /\ UNCHANGED <<task_queue, nr_waiting, exit_flag, pending, report, arrived,
                   dispatched, selected, decision, failed_at, notified, drain>>

\* dispatch_tasks(): let nr_waiting = self.task_queue.len() as u64
DispatchBegin ==
    /\ pc = "dispatch_begin"
    /\ drain' = NoDrain
    /\ nr_waiting' = Len(task_queue)
    /\ pc' = "dispatch"
    /\ UNCHANGED <<task_queue, exit_flag, pending, report, arrived, dispatched,
                   selected, decision, failed_at, drain_result, calls,
                   notified, trace>>

\* Variant of DispatchTask: the result of dispatch_task() is dropped instead
\* of unwrapped, the loop goes on with the next task.
DispatchTaskErrorDropped ==
    /\ pc = "dispatch"
    /\ trace' = trace \o <<"select_cpu", "dispatch_task">>
    /\ task_queue # <<>>
    /\ LET p == PopFront(task_queue) IN
       \E cpu \in SelectCpuResults, ok \in BOOLEAN :
         /\ task_queue' = p.rest
         /\ selected' = [pid |-> p.task.pid, prev_cpu |-> p.task.cpu,
                         flags |-> 0, ret |-> cpu]
         /\ decision' = Decide(p.task, cpu, nr_waiting)
         /\ dispatched' = Append(dispatched, Submitted(decision'))
         /\ pending' = IF ok THEN pending \ {p.task.pid} ELSE pending
         /\ failed_at' = IF ok THEN failed_at ELSE Len(dispatched) + 1
         /\ pc' = "dispatch"
    /\ UNCHANGED <<nr_waiting, exit_flag, report, arrived, drain_result, calls,
                   notified, drain>>

\* Variant of DispatchTask: the task is read with front() and dispatched, but
\* stays in the queue, and the pass ends.
DispatchTaskKept ==
    /\ pc = "dispatch"
    /\ trace' = trace \o <<"select_cpu", "dispatch_task">>
    /\ task_queue # <<>>
    /\ LET task == Head(task_queue) IN
       \E cpu \in SelectCpuResults, ok \in BOOLEAN :
         /\ selected' = [pid |-> task.pid, prev_cpu |-> task.cpu,
                         flags |-> 0, ret |-> cpu]
         /\ decision' = Decide(task, cpu, nr_waiting)
         /\ dispatched' = Append(dispatched, Submitted(decision'))
         /\ pending' = IF ok THEN pending \ {task.pid} ELSE pending
         /\ failed_at' = IF ok THEN failed_at ELSE Len(dispatched) + 1
         /\ pc' = IF ok THEN "notify" ELSE "crashed"
    /\ UNCHANGED <<task_queue, nr_waiting, exit_flag, report, arrived,
                   drain_result, calls, notified, drain>>

\* Variant of DispatchTask: a task for which select_cpu() found no idle CPU
\* is popped and dropped without being submitted.
DispatchTaskDropBusy ==
    /\ pc = "dispatch"
    /\ task_queue # <<>>
    /\ LET p == PopFront(task_queue) IN
       \E cpu \in SelectCpuResults, ok \in BOOLEAN :
         /\ task_queue' = p.rest
         /\ selected' = [pid |-> p.task.pid, prev_cpu |-> p.task.cpu,
                         flags |-> 0, ret |-> cpu]
         /\ decision' = Decide(p.task, cpu, nr_waiting)
         /\ IF cpu < 0
            THEN /\ trace' = Append(trace, "select_cpu")
                 /\ pc' = "dispatch"
                 /\ UNCHANGED <<dispatched, pending, failed_at>>
            ELSE /\ trace' = trace \o <<"select_cpu", "dispatch_task">>
                 /\ dispatched' = Append(dispatched, Submitted(decision'))
                 /\ pending' = IF ok THEN pending \ {p.task.pid} ELSE pending
                 /\ failed_at' = IF ok THEN failed_at ELSE Len(dispatched) + 1
                 /\ pc' = IF ok THEN "dispatch" ELSE "crashed"
    /\ UNCHANGED <<nr_waiting, exit_flag, report, arrived, drain_result, calls,
                   notified, drain>>

\* dispatch_tasks(): one iteration of the while-let loop: pop_front,
\* select_cpu, build the decision, dispatch_task(..).unwrap()
DispatchTask ==
    /\ pc = "dispatch"
    /\ trace' = trace \o <<"select_cpu", "dispatch_task">>
    /\ task_queue # <<>>
    /\ LET p == PopFront(task_queue) IN
       \E cpu \in SelectCpuResults, ok \in BOOLEAN :
         /\ task_queue' = p.rest
         /\ selected' = [pid |-> p.task.pid, prev_cpu |-> p.task.cpu,
                         flags |-> 0, ret |-> cpu]
         /\ decision' = Decide(p.task, cpu, nr_waiting)
         /\ dispatched' = Append(dispatched, Submitted(decision'))
         /\ pending' = IF ok THEN pending \ {p.task.pid} ELSE pending
         /\ failed_at' = IF ok THEN failed_at ELSE Len(dispatched) + 1
         /\ pc' = IF ok THEN "dispatch" ELSE "crashed"
    /\ UNCHANGED <<nr_waiting, exit_flag, report, arrived, drain_result, calls,
                   notified, drain>>

\* Variant of DispatchDone: notify_complete() is skipped when the pass had
\* nothing to dispatch.
DispatchDoneSkipIdle ==
    /\ pc = "dispatch"
    /\ task_queue = <<>>
    /\ pc' = IF nr_waiting = 0 THEN "poll" ELSE "notify"
    /\ selected' = NoSelect
    /\ decision' = NoDecision
    /\ UNCHANGED <<task_queue, nr_waiting, exit_flag, pending, report, arrived,
                   dispatched, failed_at, drain_result, calls, notified, trace,
                   drain>>

\* Variant of DispatchDone: after a pass that dispatched tasks the loop
\* drains again before it notifies.
DispatchDoneRedrain ==
    /\ pc = "dispatch"
    /\ task_queue = <<>>
    /\ pc' = IF nr_waiting > 0 THEN "consume" ELSE "notify"
    /\ selected' = NoSelect
    /\ decision' = NoDecision
    /\ UNCHANGED <<task_queue, nr_waiting, exit_flag, pending, report, arrived,
                   dispatched, failed_at, drain_result, calls, notified, trace,
                   drain>>

\* dispatch_tasks(): pop_front() returned None: the pass is over
DispatchDone ==
    /\ pc = "dispatch"
    /\ task_queue = <<>>
    /\ pc' = "notify"
    /\ selected' = NoSelect
    /\ decision' = NoDecision
    /\ UNCHANGED <<task_queue, nr_waiting, exit_flag, pending, report, arrived,
                   dispatched, failed_at, drain_result, calls, notified, trace,
                   drain>>

\* Variant of NotifyComplete: the batch size is reported as pending,
\* notify_complete(nr_waiting).
NotifyCompleteBatchSize ==
    /\ pc = "notify"
    /\ trace' = Append(trace, "notify_complete")
    /\ notified' = [called |-> TRUE, arg |-> nr_waiting, left |-> Len(task_queue)]
    /\ calls' = CycleCount([calls EXCEPT !.notify = @ + 1,
                                         !.late = IF exit_flag THEN @ + 1 ELSE @])
    /\ pc' = "poll"
    /\ UNCHANGED <<task_queue, nr_waiting, exit_flag, pending, report, arrived,
                   dispatched, selected, decision, failed_at, drain_result,
                   drain>>

\* run(): self.bpf.notify_complete(0)
NotifyComplete ==
    /\ pc = "notify"
    /\ trace' = Append(trace, "notify_complete")
    /\ notified' = [called |-> TRUE, arg |-> 0, left |-> Len(task_queue)]
    /\ calls' = CycleCount([calls EXCEPT !.notify = @ + 1,
                                         !.late = IF exit_flag THEN @ + 1 ELSE @])
    /\ pc' = "poll"
    /\ UNCHANGED <<task_queue, nr_waiting, exit_flag, pending, report, arrived,
                   dispatched, selected, decision, failed_at, drain_result,
                   drain>>

\* run(): self.bpf.shutdown_and_report()
ShutdownAndReport ==
    /\ pc = "exited"
    /\ trace' = Append(trace, "shutdown_and_report")
    /\ \E ok \in BOOLEAN, restart \in BOOLEAN :
         report' = [ok |-> ok, should_restart |-> ok /\ restart, valid |-> TRUE,
                    requested |-> restart]
    /\ calls' = [calls EXCEPT !.report = @ + 1]
    /\ pc' = "reporting"
    /\ UNCHANGED <<task_queue, nr_waiting, exit_flag, pending, arrived,
                   dispatched, selected, decision, failed_at, drain_result,
                   notified, drain>>

\* Variant of MainDecide: the test is inverted, if should_restart() { break; }
MainDecideInverted ==
    /\ pc = "reporting"
    /\ pc' = IF ~report.ok THEN "failed"
             ELSE IF report.should_restart THEN "terminated" ELSE "init"
    /\ UNCHANGED <<task_queue, nr_waiting, exit_flag, pending, report, arrived,
                   dispatched, selected, decision, failed_at, drain_result,
                   calls, notified, trace, drain>>

\* Variant of MainDecide: the error of run() is not propagated, main()
\* restarts when the backend had recorded a restart request.
MainDecideRetry ==
    /\ pc = "reporting"
    /\ pc' = IF ~report.ok
             THEN (IF report.requested THEN "init" ELSE "failed")
             ELSE IF report.should_restart THEN "init" ELSE "terminated"
    /\ UNCHANGED <<task_queue, nr_waiting, exit_flag, pending, report, arrived,
                   dispatched, selected, decision, failed_at, drain_result,
                   calls, notified, trace, drain>>

\* main(): if !sched.run()?.should_restart() { break; }
MainDecide ==
    /\ pc = "reporting"
    /\ pc' = IF ~report.ok THEN "failed"
             ELSE IF report.should_restart THEN "init" ELSE "terminated"
    /\ UNCHANGED <<task_queue, nr_waiting, exit_flag, pending, report, arrived,
                   dispatched, selected, decision, failed_at, drain_result,
                   calls, notified, trace, drain>>

Next ==
    \/ SchedulerInit
    \/ BackendExit
    \/ PollExited
    \/ DequeueSome
    \/ DequeueNone
    \/ DequeueErr
    \/ DispatchBegin
    \/ DispatchTask
    \/ DispatchDone
    \/ NotifyComplete
    \/ ShutdownAndReport
    \/ MainDecide

Spec == Init /\ [][Next]_vars

\* dequeue_task() returns a task, in the executions of FairSpec: the backend
\* has MaxFairArrivals tasks to hand out.
FairDequeueSome ==
    /\ Len(arrived) < MaxFairArrivals
    /\ DequeueSome

\* The steps of the program's one thread: every step but the backend raising
\* its exit flag.
Program ==
    \/ SchedulerInit
    \/ PollExited
    \/ FairDequeueSome
    \/ DequeueNone
    \/ DequeueErr
    \/ DispatchBegin
    \/ DispatchTask
    \/ DispatchDone
    \/ NotifyComplete
    \/ ShutdownAndReport
    \/ MainDecide

FairNext == BackendExit \/ Program

\* The thread keeps running: every backend call returns (notify_complete()
\* included, which the backend ends when there is work or an exit request).
FairSpec == Init /\ [][FairNext]_vars /\ WF_vars(Program)

\* ------------------------------------------------ the time slice on its own
\* The slice computation of dispatch_tasks() over batch sizes the explicit
\* queue of Spec cannot hold: nr_waiting is drawn from two windows, the small
\* batches and the batches around SLICE_NS, and one decision is built for a
\* task of that batch.
SliceBatchSizes ==
    (0..SliceProbe) \cup ((SLICE_NS - SliceProbe)..(SLICE_NS + SliceProbe))

SliceInit ==
    /\ pc = "slice"
    /\ task_queue = <<>>
    /\ nr_waiting \in SliceBatchSizes
    /\ exit_flag = FALSE
    /\ pending = {}
    /\ report = NoReport
    /\ arrived = <<>>
    /\ dispatched = <<>>
    /\ selected = NoSelect
    /\ decision = NoDecision
    /\ failed_at = 0
    /\ drain_result = "empty"
    /\ calls = NoCalls
    /\ notified = NoNotify
    /\ trace = <<>>
    /\ drain = NoDrain

SliceApply ==
    /\ pc = "slice"
    /\ \E task \in QueuedTask, cpu \in SelectCpuResults :
         /\ selected' = [pid |-> task.pid, prev_cpu |-> task.cpu,
                         flags |-> 0, ret |-> cpu]
         /\ decision' = Decide(task, cpu, nr_waiting)
         /\ dispatched' = <<Submitted(decision')>>
    /\ pc' = "slice_done"
    /\ UNCHANGED <<task_queue, nr_waiting, exit_flag, pending, report, arrived,
                   failed_at, drain_result, calls, notified, trace, drain>>

SliceNext == SliceApply

SliceSpec == SliceInit /\ [][SliceNext]_vars

\* ------------------------------------------------------------------ claims

\* C1: FIFO order.  The task identifiers passed to dispatch_task() are, in
\* order, the task identifiers returned by dequeue_task(): the log of
\* decisions is a prefix of the log of arrivals, so no decision overtakes the
\* decision of a task that arrived earlier.
C1_FifoOrder ==
    /\ Len(dispatched) <= Len(arrived)
    /\ \A i \in DOMAIN dispatched : dispatched[i].pid = arrived[i]

\* Two different tasks drained into one batch have both been dispatched.
C1_Witness ==
    /\ Len(dispatched) >= 2
    /\ nr_waiting = 2
    /\ dispatched[1].pid # dispatched[2].pid

\* The decisions submitted by the dispatch pass nr_waiting belongs to: the
\* pass has popped nr_waiting - Len(task_queue) tasks so far.
PassDecisions ==
    {i \in DOMAIN dispatched :
        i > Len(dispatched) - (nr_waiting - Len(task_queue))}

\* C2: slice bound.  Every decision of a pass that started with n queued
\* tasks has slice_ns = SLICE_NS / (n + 1) (the quotient: slice_ns * (n + 1)
\* <= SLICE_NS < (slice_ns + 1) * (n + 1)), and that slice is > 0.
C2_SliceBound ==
    \A i \in PassDecisions :
        /\ dispatched[i].slice_ns * (nr_waiting + 1) <= SLICE_NS
        /\ (dispatched[i].slice_ns + 1) * (nr_waiting + 1) > SLICE_NS
        /\ dispatched[i].slice_ns > 0

C4_PendingCount ==
    notified.called => notified.arg = notified.left

\* notify_complete() was called after a pass that dispatched tasks.
C4_Witness ==
    /\ notified.called
    /\ pc = "poll"
    /\ nr_waiting > 0

\* C5: notify_complete() is called once in every cycle whose dispatch pass
\* completes, also when nothing was drained: outside a cycle's dispatch pass
\* there are as many notify_complete() calls as drains, inside it exactly one
\* less.
C5_NotifyEveryCycle ==
    IF pc \in {"dispatch_begin", "dispatch", "notify", "crashed"}
    THEN calls.drains = calls.notify + 1
    ELSE calls.drains = calls.notify

\* A cycle that drained nothing was closed by notify_complete().
C5_Witness ==
    /\ pc = "poll"
    /\ notified.called
    /\ nr_waiting = 0
    /\ drain_result = "empty"
    /\ arrived = <<>>

\* C6: exited() is polled once per cycle, before the drain; after a poll that
\* returned true the instance makes no dequeue_task(), select_cpu(),
\* dispatch_task() or notify_complete() call; shutdown_and_report() is called
\* at most once, only after exited() returned true, and has been called
\* whenever main() holds a report.
C6_ExitCheck ==
    /\ [](/\ pc = "consume" => calls.exited = calls.drains + 1
          /\ pc \in {"poll", "dispatch_begin", "dispatch", "notify", "crashed"}
                => calls.exited = calls.drains /\ ~calls.exit_seen
          /\ calls.exit_seen => /\ calls.exited = calls.drains + 1
                                /\ pc \notin Running
          /\ calls.report <= 1
          /\ calls.report = 1 => calls.exit_seen
          /\ pc = "exited" => calls.exit_seen /\ calls.report = 0
          /\ pc \in {"reporting", "terminated"} => calls.report = 1)
    /\ [][(calls.exit_seen /\ pc # "init") =>
             /\ UNCHANGED <<arrived, dispatched, selected, decision, notified,
                            task_queue>>
             /\ calls'.drains = calls.drains
             /\ calls'.notify = calls.notify
             /\ calls'.exited = calls.exited]_vars

\* An instance that dispatched tasks saw exited() return true and reported.
C6_Witness ==
    /\ calls.exit_seen
    /\ calls.report = 1
    /\ Len(dispatched) > 0

\* The lifecycle state of section 4.5 the program is in.
Lifecycle ==
    CASE pc \in Running -> "Running"
      [] pc = "exited" -> "Exited"
      [] pc = "reporting" -> "Reporting"
      [] pc = "init" -> "Reinitializing"
      [] pc = "terminated" -> "Terminated"
      [] OTHER -> "Aborted"

LifecycleEdges ==
    {<<"Running", "Exited">>, <<"Exited", "Reporting">>,
     <<"Reporting", "Reinitializing">>, <<"Reporting", "Terminated">>,
     <<"Reinitializing", "Running">>}

\* C7: restart semantics.  With a report in hand, should_restart = true leads
\* to init() and should_restart = false to termination; init() starts the new
\* instance with an empty queue and empty logs; nothing happens after
\* termination; and the lifecycle states change only along Running -> Exited
\* -> Reporting -> (Reinitializing -> Running | Terminated).
C7_Restart ==
    /\ [][(pc = "reporting" /\ report.ok) =>
             pc' = IF report.should_restart THEN "init" ELSE "terminated"]_vars
    /\ [][(pc = "init" /\ pc' \in Running) =>
             /\ pc' = "poll"
             /\ task_queue' = <<>>
             /\ pending' = {}
             /\ arrived' = <<>>
             /\ dispatched' = <<>>]_vars
    /\ [][pc # "terminated"]_vars
    /\ [][(Lifecycle' # Lifecycle /\ Lifecycle' # "Aborted") =>
             <<Lifecycle, Lifecycle'>> \in LifecycleEdges]_vars

\* main() is about to create a new instance after an instance that dispatched
\* tasks reported should_restart = true.
C7_Witness ==
    /\ pc = "init"
    /\ report.valid /\ report.ok /\ report.should_restart
    /\ Len(dispatched) > 0

\* C8: an error of dequeue_task() ends the drain like an empty result: the
\* step leads to the dispatch pass with the queue as it was, and the cycle
\* then dispatches every drained task and calls notify_complete().
C8_IntakeErrorSwallowed ==
    /\ [][(/\ pc = "consume"
            /\ calls'.drains # calls.drains
            /\ drain_result' = "err") =>
             /\ pc' = "dispatch_begin"
             /\ UNCHANGED <<task_queue, arrived, pending, dispatched, report>>]_vars
    /\ []((drain_result = "err" /\ pc = "notify") =>
             /\ task_queue = <<>>
             /\ Len(dispatched) = Len(arrived))
    /\ []((drain_result = "err" /\ pc = "poll") =>
             /\ calls.notify = calls.drains
             /\ Len(dispatched) = Len(arrived))

\* A drain that appended tasks ended on an error, and its cycle completed.
C8_Witness ==
    /\ drain_result = "err"
    /\ pc = "poll"
    /\ nr_waiting > 0
    /\ calls.notify = calls.drains

\* C9: a dispatch_task() error aborts the instance: the failed decision is
\* the last one submitted, no notify_complete() follows in that cycle, and
\* nothing happens afterwards.
C9_DispatchErrorFatal ==
    /\ [](failed_at # 0 =>
             /\ pc = "crashed"
             /\ failed_at = Len(dispatched)
             /\ calls.notify + 1 = calls.drains)
    /\ [][failed_at = 0 /\ pc # "crashed"]_vars

\* dispatch_task() failed while further tasks were queued behind the task.
C9_Witness ==
    /\ failed_at # 0
    /\ task_queue # <<>>

\* C10: queue uniqueness.  No task identifier is twice in the task queue
\* (the backend hands out no task that is still pending a decision).
C10_QueueUnique ==
    \A i, j \in DOMAIN task_queue :
        i # j => task_queue[i].pid # task_queue[j].pid

\* Two tasks are queued at once.
C10_Witness ==
    Len(task_queue) >= 2

\* The place of a backend call in a cycle: poll, drain, dispatch, notify.
CallRank(c) ==
    CASE c = "exited" -> 0
      [] c \in {"dequeue_some", "dequeue_none", "dequeue_err"} -> 1
      [] c \in {"select_cpu", "dispatch_task"} -> 2
      [] c = "notify_complete" -> 3
      [] OTHER -> 4

\* C11: cycle ordering.  The backend calls of a cycle come in the order
\* exited(), all the dequeue_task() calls, then select_cpu() and
\* dispatch_task() for each task, then notify_complete(): the drain has ended
\* before the first select_cpu(), no dequeue_task() follows a dispatch_task(),
\* and notify_complete() is the last call of the cycle.
C11_CycleOrder ==
    /\ \A i \in DOMAIN trace : (trace[i] = "exited") <=> (i = 1)
    /\ \A i \in 1..(Len(trace) - 1) :
          CallRank(trace[i]) <= CallRank(trace[i + 1])
    /\ \A i \in DOMAIN trace :
          /\ trace[i] = "select_cpu" =>
                /\ i < Len(trace)
                /\ trace[i + 1] = "dispatch_task"
          /\ trace[i] = "dispatch_task" => trace[i - 1] = "select_cpu"
          /\ trace[i] \in {"select_cpu", "notify_complete"} =>
                \E j \in 1..(i - 1) : trace[j] \in {"dequeue_none", "dequeue_err"}
          /\ trace[i] = "notify_complete" => i = Len(trace)

\* A cycle that drained two tasks, dispatched both and notified.
C11_Witness ==
    /\ Len(trace) = 9
    /\ trace[2] = "dequeue_some"
    /\ trace[6] = "dispatch_task"
    /\ trace[9] = "notify_complete"

\* C12: shutdown responsiveness.  With the exit flag set, at most one more
\* notify_complete() call is made (the one of the cycle in progress), the next
\* poll of exited() leaves the loop, and, the thread running on, the instance
\* reaches shutdown_and_report() unless a dispatch_task() failed.
C12_ShutdownResponsive ==
    /\ [](calls.late <= 1)
    /\ [][(exit_flag /\ pc = "poll") => pc' = "exited"]_vars
    /\ exit_flag ~> (calls.report = 1 \/ failed_at # 0)

\* The flag was raised inside a cycle that dispatched tasks; the cycle was
\* completed by its notify_complete() and the instance has reported.
C12_Witness ==
    /\ calls.late = 1
    /\ calls.report = 1
    /\ Len(dispatched) > 0

\* The i-th call of the cycle in progress is a dequeue_task() call.
IsDequeue(i) == trace[i] \in {"dequeue_some", "dequeue_none", "dequeue_err"}

\* C13: drain result.  While consume_tasks() runs and when it has returned,
\* the task queue is the queue before the call followed by the tasks
\* dequeue_task() returned, in the order received; the first empty or failed
\* result is the last dequeue_task() call of the cycle; and a drain step
\* changes nothing but the queue.
C13_DrainResult ==
    /\ [](pc \in {"consume", "dispatch_begin"} =>
             /\ task_queue = drain.before \o drain.got
             /\ Len(drain.got) =
                  Cardinality({i \in DOMAIN trace : trace[i] = "dequeue_some"}))
    /\ [](\A i \in DOMAIN trace :
             trace[i] \in {"dequeue_none", "dequeue_err"} =>
                 \A j \in (i + 1)..Len(trace) : ~IsDequeue(j))
    /\ [][(Len(trace') = Len(trace) + 1 /\ trace'[Len(trace')] \in
               {"dequeue_some", "dequeue_none", "dequeue_err"}) =>
             UNCHANGED <<nr_waiting, dispatched, selected, decision, failed_at,
                         report, notified, exit_flag>>]_vars

\* consume_tasks() has returned after a drain of two tasks with different
\* previous CPUs.
C13_Witness ==
    /\ pc = "dispatch_begin"
    /\ Len(drain.got) = 2
    /\ drain.got[1].cpu # drain.got[2].cpu

\* C14: batch size fixed at the start of the pass.  During and after a
\* dispatch pass, nr_waiting is the number of tasks the pass has popped plus
\* the number still queued, every decision of the pass carries the slice
\* SLICE_NS / (nr_waiting + 1), whatever the queue length was when it was
\* popped, and the decisions are submitted in arrival order.
C14_BatchFixed ==
    pc \in {"dispatch", "notify"} =>
        /\ Cardinality(PassDecisions) + Len(task_queue) = nr_waiting
        /\ \A i \in PassDecisions :
              /\ dispatched[i].slice_ns = SLICE_NS \div (nr_waiting + 1)
              /\ dispatched[i].pid = arrived[i]
        /\ \A i, j \in PassDecisions :
              dispatched[i].slice_ns = dispatched[j].slice_ns

\* Three tasks queued together have each been given 1,250,000 ns, in the
\* order they arrived.
C14_Witness ==
    /\ pc = "notify"
    /\ nr_waiting = 3
    /\ Len(dispatched) = 3
    /\ \A i \in 1..3 : /\ dispatched[i].slice_ns = 1250000
                       /\ dispatched[i].pid = arrived[i]

\* C15: idle-CPU placement.  A step that submits a decision calls
\* select_cpu() with the pid and the previous CPU of the task at the head of
\* the queue and submits a decision with that pid; when select_cpu()
\* returned c >= 0 the decision targets CPU c and RL_CPU_ANY is not set in
\* it.  In a pass, select_cpu() has been called once for each decision
\* submitted.
C15_IdleCpuPlacement ==
    /\ [][(pc = "dispatch" /\ dispatched' # dispatched) =>
             LET task == Head(task_queue) IN
             /\ selected'.pid = task.pid
             /\ selected'.prev_cpu = task.cpu
             /\ decision'.pid = task.pid
             /\ dispatched'[Len(dispatched')].pid = task.pid
             /\ selected'.ret >= 0 =>
                   /\ decision'.cpu = selected'.ret
                   /\ ~HasFlag(decision'.flags, RL_CPU_ANY)]_vars
    /\ [](pc \in {"dispatch", "notify"} =>
             Cardinality({i \in DOMAIN trace : trace[i] = "select_cpu"})
                 = Cardinality(PassDecisions))

\* A task has been moved to an idle CPU other than the one it last ran on.
C15_Witness ==
    /\ decision # NoDecision
    /\ selected.ret >= 0
    /\ selected.ret # selected.prev_cpu
    /\ decision.cpu = selected.ret
    /\ decision.pid = selected.pid

\* The pids of a sequence of tasks or of logged decisions, in order.
PidsOf(q) == [i \in DOMAIN q |-> q[i].pid]

\* C16: no task lost or duplicated.  As long as no dispatch_task() call has
\* failed, the tasks dequeue_task() returned are, in order, the tasks
\* submitted followed by the tasks still queued; a drain starts from an empty
\* queue, so the tasks a pass submits are those drained in its cycle; and
\* the queue is empty when notify_complete(), exited() or
\* shutdown_and_report() is about to be called, and was empty at the last
\* notify_complete() call.
C16_NoLossNoDup ==
    failed_at = 0 =>
        /\ arrived = PidsOf(dispatched) \o PidsOf(task_queue)
        /\ pc \in {"consume", "dispatch_begin"} => drain.before = <<>>
        /\ pc \in {"notify", "poll", "exited"} =>
              /\ task_queue = <<>>
              /\ arrived = PidsOf(dispatched)
        /\ notified.called => notified.left = 0

\* Two cycles have each drained and submitted tasks and the backend has
\* exited: shutdown_and_report() is about to be called.
C16_Witness ==
    /\ pc = "exited"
    /\ failed_at = 0
    /\ Len(arrived) = 3
    /\ nr_waiting = 1
    /\ notified.called

\* The number of dispatch_task() calls of the cycle in progress.
Submissions == Cardinality({i \in DOMAIN trace : trace[i] = "dispatch_task"})

\* C17: cycle termination.  While no dispatch_task() call has failed, a
\* dispatch pass that started with nr_waiting queued tasks has made
\* nr_waiting submissions less one for each task still queued, and exactly
\* nr_waiting when notify_complete() is about to be called; and, the backend
\* returning finitely many tasks, every cycle that starts its drain reaches
\* notify_complete() unless a dispatch_task() call fails.
C17_CycleTermination ==
    /\ []((pc = "dispatch" /\ failed_at = 0) =>
             Submissions + Len(task_queue) = nr_waiting)
    /\ [](pc = "notify" => Submissions = nr_waiting)
    /\ (pc = "consume") ~> (pc = "notify" \/ failed_at # 0)

\* A cycle that drained two tasks has submitted both and is about to call
\* notify_complete().
C17_Witness ==
    /\ pc = "notify"
    /\ Len(drain.got) = 0
    /\ nr_waiting = 2
    /\ Submissions = 2
    /\ failed_at = 0
    /\ trace[1] = "exited"
    /\ trace[2] = "dequeue_some"

\* C18: lifecycle errors end the process without a restart.  main() goes
\* from init() to the first poll or, init() failing, to its error return;
\* from a failed shutdown_and_report() it goes to its error return whatever
\* restart request the backend had recorded; nothing happens after the error
\* return; an instance whose init() failed has made no backend call; and a
\* new instance is created only at the start or after a successful report
\* with should_restart = true.
C18_LifecycleErrors ==
    /\ [][pc = "init" => pc' \in {"poll", "failed"}]_vars
    /\ [][(pc = "reporting" /\ ~report.ok) => pc' = "failed"]_vars
    /\ [][pc # "failed"]_vars
    /\ [](pc = "failed" =>
             \/ /\ ~report.valid
                /\ trace = <<>>
                /\ calls = NoCalls
                /\ arrived = <<>>
             \/ /\ report.valid
                /\ ~report.ok
                /\ calls.report = 1)
    /\ [](pc = "init" =>
             \/ ~report.valid
             \/ report.ok /\ report.should_restart)

\* main() has returned the error of shutdown_and_report() although the
\* backend had recorded a restart request, after an instance that
\* dispatched tasks.
C18_Witness ==
    /\ pc = "failed"
    /\ report.valid
    /\ ~report.ok
    /\ report.requested
    /\ Len(dispatched) > 0

====
